---- MODULE Spec2Model ----
(***************************************************************************)
(* geojson4gtfs: GeojsonMatcher (src/geojson4gtfs/matcher.py).             *)
(*                                                                         *)
(* Geometry.  All points lie on the equator (lat = 0) and a longitude is   *)
(* an integer number of grid steps.  On the equator the WGS84 geodesic     *)
(* between two points is the equatorial arc, so its length is exactly      *)
(* proportional to the longitude difference, and the planar nearest point  *)
(* of a linestring is the true nearest point.  A point is <<lon, lat>>, a  *)
(* LineString is a sequence of points.                                     *)
(*                                                                         *)
(* Strings.  A stop_id is a sequence of one-character strings, so that     *)
(* '#'.join(...) is modelled as the concatenation it is.  The empty string *)
(* is <<>>.  A trip_id is an opaque string.                                *)
(*                                                                         *)
(* Dicts.  A Python dict is an insertion-ordered sequence of <<key,value>> *)
(* pairs.                                                                  *)
(***************************************************************************)
EXTENDS Integers, Sequences, FiniteSets, TLC

\* ------------------------------------------------------------------ bounds
MaxPts == 3         \* points per generated linestring: 2..MaxPts
MaxStops == 2       \* stops per generated trip
MaxTripRows == 2    \* data rows of a generated trips.txt
MaxRuns == 3        \* run() calls in the repeated-run specification

\* ------------------------------------------------------ threshold and grid
Threshold == 20     \* metres; the literal of the three proximity tests
MetresPerUnit == 20 \* metres of WGS84 geodesic per longitude grid step on the equator

\* ------------------------------------------------------------ Python dicts
Has(d, k) == \E i \in DOMAIN d : d[i][1] = k

Get(d, k) == d[CHOOSE i \in DOMAIN d : d[i][1] = k][2]

Put(d, k, v) ==
    IF Has(d, k)
    THEN [i \in DOMAIN d |-> IF d[i][1] = k THEN <<k, v>> ELSE d[i]]
    ELSE Append(d, <<k, v>>)

\* ---------------------------------------------------------------- geometry
Abs(x) == IF x < 0 THEN 0 - x ELSE x

Min2(a, b) == IF a < b THEN a ELSE b

Max2(a, b) == IF a < b THEN b ELSE a

\* Geod.geometry_length(LineString([p, q])) for two points of the equator
GeodDist(p, q) == MetresPerUnit * Abs(p[1] - q[1])

\* Geod.geometry_length(line_string): the sum over its segments
RECURSIVE GeometryLength(_)
GeometryLength(line) ==
    IF Len(line) < 2 THEN 0
    ELSE GeodDist(line[1], line[2]) + GeometryLength(Tail(line))

\* the point of segment [a, b] nearest to p (coordinate-space projection)
NearestOnSegment(a, b, p) ==
    <<Max2(Min2(a[1], b[1]), Min2(p[1], Max2(a[1], b[1]))), 0>>

\* nearest_points(line_string, p)[0]: the nearest point over all segments
NearestOnLine(line, p) ==
    LET cands == {NearestOnSegment(line[i], line[i + 1], p) : i \in 1..(Len(line) - 1)}
    IN CHOOSE c \in cands : \A o \in cands : Abs(c[1] - p[1]) <= Abs(o[1] - p[1])

\* geometry_length(LineString(nearest_points(line_string, p)))
DistToLine(line, p) == GeodDist(NearestOnLine(line, p), p)

\* ----------------------------------------------------- _read_geojson_file
\* one LineString per Feature whose geometry is a LineString; each
\* coordinate [lon, lat, ...] becomes Point(lon, lat)
RECURSIVE ReadGeojsonFile(_, _)
ReadGeojsonFile(linestrings, features) ==
    IF features = <<>> THEN linestrings
    ELSE LET feature == Head(features)
             coordinates == [i \in DOMAIN feature.geometry.coordinates |->
                               <<feature.geometry.coordinates[i][1],
                                 feature.geometry.coordinates[i][2]>>]
         IN ReadGeojsonFile(
                IF feature.type = "Feature" /\ feature.geometry.type = "LineString"
                THEN Append(linestrings, coordinates)
                ELSE linestrings,
                Tail(features))

\* __init__: the files of the directory are read in the order listed
RECURSIVE ReadGeojsonDir(_, _, _)
ReadGeojsonDir(linestrings, dir, order) ==
    IF order = <<>> THEN linestrings
    ELSE ReadGeojsonDir(ReadGeojsonFile(linestrings, dir[Head(order)]), dir, Tail(order))

\* -------------------------------------------------------- _read_gtfs_index
\* stops.txt -> stop_coordinate_index (a later row of a stop_id replaces
\* an earlier one)
RECURSIVE StopCoordinateIndex(_, _)
StopCoordinateIndex(index, rows) ==
    IF rows = <<>> THEN index
    ELSE StopCoordinateIndex(
            Put(index, Head(rows).stop_id, <<Head(rows).stop_lon, Head(rows).stop_lat>>),
            Tail(rows))

\* stop_times.txt -> trip_stop_id_lists: the stop_ids of each trip in the
\* order of the rows of the file
RECURSIVE TripStopIdLists(_, _)
TripStopIdLists(lists, rows) ==
    IF rows = <<>> THEN lists
    ELSE LET row == Head(rows)
             l1 == IF ~Has(lists, row.trip_id) THEN Put(lists, row.trip_id, <<>>) ELSE lists
         IN TripStopIdLists(Put(l1, row.trip_id, Append(Get(l1, row.trip_id), row.stop_id)),
                            Tail(rows))

\* '#'.join(stop_ids)
RECURSIVE Join(_)
Join(stop_ids) ==
    IF stop_ids = <<>> THEN <<>>
    ELSE IF Len(stop_ids) = 1 THEN stop_ids[1]
    ELSE stop_ids[1] \o <<"#">> \o Join(Tail(stop_ids))

\* the inner loop that looks up the coordinate of each stop of a new
\* pattern; an unknown stop_id raises KeyError
RECURSIVE PatternCoordinates(_, _, _)
PatternCoordinates(index, stop_ids, acc) ==
    IF stop_ids = <<>> THEN [coords |-> acc, raised |-> FALSE]
    ELSE IF ~Has(index, Head(stop_ids)) THEN [coords |-> acc, raised |-> TRUE]
    ELSE PatternCoordinates(index, Tail(stop_ids), Append(acc, Get(index, Head(stop_ids))))

\* the loop over trip_stop_id_lists that fills _gtfs_trip_patterns and
\* _gtfs_trip_patterns_trip_ids
RECURSIVE TransformTrips(_, _, _, _)
TransformTrips(lists, index, patterns, trip_ids) ==
    IF lists = <<>> THEN [patterns |-> patterns, trip_ids |-> trip_ids, raised |-> FALSE]
    ELSE LET trip_id == Head(lists)[1]
             stop_ids == Head(lists)[2]
             trip_pattern_id == Join(stop_ids)
             isNew == ~Has(patterns, trip_pattern_id)
             r == PatternCoordinates(index, stop_ids, <<>>)
             p1 == IF isNew THEN Put(patterns, trip_pattern_id, r.coords) ELSE patterns
             t1 == IF ~Has(trip_ids, trip_pattern_id)
                   THEN Put(trip_ids, trip_pattern_id, <<>>) ELSE trip_ids
             t2 == Put(t1, trip_pattern_id, Append(Get(t1, trip_pattern_id), trip_id))
         IN IF isNew /\ r.raised
            THEN [patterns |-> p1, trip_ids |-> trip_ids, raised |-> TRUE]
            ELSE TransformTrips(Tail(lists), index, p1, t2)

\* --------------------------------------------------------- run: candidates
\* LineStringMatched without the test of the end point
LineStringMatchedNoEnd(line_string, trip_pattern_coordinates) ==
    /\ ~(GeodDist(line_string[1], trip_pattern_coordinates[1]) > Threshold)
    /\ \A i \in DOMAIN trip_pattern_coordinates :
          ~(DistToLine(line_string, trip_pattern_coordinates[i]) > Threshold)

\* the start test, the end test and the test of every stop of the pattern
LineStringMatched(line_string, trip_pattern_coordinates) ==
    /\ ~(GeodDist(line_string[1], trip_pattern_coordinates[1]) > Threshold)
    /\ ~(GeodDist(line_string[Len(line_string)],
                  trip_pattern_coordinates[Len(trip_pattern_coordinates)]) > Threshold)
    /\ \A i \in DOMAIN trip_pattern_coordinates :
          ~(DistToLine(line_string, trip_pattern_coordinates[i]) > Threshold)

\* line_string_candidates: index (from 0, in load order) -> length
RECURSIVE Candidates(_, _, _, _)
Candidates(linestrings, trip_pattern_coordinates, index, candidates) ==
    IF index >= Len(linestrings) THEN candidates
    ELSE Candidates(linestrings, trip_pattern_coordinates, index + 1,
            IF LineStringMatched(linestrings[index + 1], trip_pattern_coordinates)
            THEN Put(candidates, index, GeometryLength(linestrings[index + 1]))
            ELSE candidates)

\* PyMin that keeps the last of the keys with the lowest value
RECURSIVE PyMinLast(_, _, _)
PyMinLast(candidates, i, best) ==
    IF i > Len(candidates) THEN candidates[best][1]
    ELSE PyMinLast(candidates, i + 1,
                   IF candidates[i][2] <= candidates[best][2] THEN i ELSE best)

\* min(line_string_candidates, key = line_string_candidates.get): the first
\* key, in insertion order, whose value no other value is below
RECURSIVE PyMin(_, _, _)
PyMin(candidates, i, best) ==
    IF i > Len(candidates) THEN candidates[best][1]
    ELSE PyMin(candidates, i + 1,
               IF candidates[i][2] < candidates[best][2] THEN i ELSE best)

\* ----------------------------------------------------------- _create_shape
\* f"de:vpe:shape:{n}"
ShapeId(n) == <<"de:vpe:shape:", n>>

\* shape_dist_traveled is in kilometres: metres / 1000.0, kept as a fraction
Km(metres) == <<metres, 1000>>

\* the loop over all points but the last
RECURSIVE ShapeLoop(_, _, _, _, _)
ShapeLoop(shape_id, coords, i, shape_data, metres) ==
    IF i >= Len(coords) - 1 THEN [shape_data |-> shape_data, metres |-> metres]
    ELSE ShapeLoop(shape_id, coords, i + 1,
            Append(shape_data,
                   [shape_id |-> shape_id,
                    shape_pt_lat |-> coords[i + 1][2],
                    shape_pt_lon |-> coords[i + 1][1],
                    shape_pt_sequence |-> i + 1,
                    shape_dist_traveled |-> Km(metres)]),
            metres + GeodDist(coords[i + 1], coords[i + 2]))

\* ShapeData whose last row takes len(shape_data) as its sequence number
ShapeDataSeq(shape_id, line_string) ==
    LET loop == ShapeLoop(shape_id, line_string, 0, <<>>, 0)
        last_shape_pt == line_string[Len(line_string)]
    IN Append(loop.shape_data,
              [shape_id |-> shape_id,
               shape_pt_lat |-> last_shape_pt[2],
               shape_pt_lon |-> last_shape_pt[1],
               shape_pt_sequence |-> Len(loop.shape_data),
               shape_dist_traveled |-> Km(loop.metres)])

\* the rows of the new shape
ShapeData(shape_id, line_string) ==
    LET loop == ShapeLoop(shape_id, line_string, 0, <<>>, 0)
        last_shape_pt == line_string[Len(line_string)]
    IN Append(loop.shape_data,
              [shape_id |-> shape_id,
               shape_pt_lat |-> last_shape_pt[2],
               shape_pt_lon |-> last_shape_pt[1],
               shape_pt_sequence |-> Len(loop.shape_data) + 1,
               shape_dist_traveled |-> Km(loop.metres)])

\* CreateShape whose id is derived from the linestring, not from a counter
CreateShapeByLine(shapes, line_string) ==
    LET shape_id == ShapeId(Len(line_string))
    IN [shape_id |-> shape_id,
        shapes |-> Put(shapes, shape_id, ShapeData(shape_id, line_string))]

\* _create_shape: the id is the number of shapes stored so far
CreateShape(shapes, line_string) ==
    LET shape_id == ShapeId(Len(shapes))
    IN [shape_id |-> shape_id,
        shapes |-> Put(shapes, shape_id, ShapeData(shape_id, line_string))]

\* the loop that gives every trip of the pattern the shape_id
RECURSIVE AssignShape(_, _, _)
AssignShape(trips_shape_ids, trip_ids, shape_id) ==
    IF trip_ids = <<>> THEN trips_shape_ids
    ELSE AssignShape(Put(trips_shape_ids, Head(trip_ids), shape_id), Tail(trip_ids), shape_id)

\* --------------------------------------------------------- _write_gtfs_data
ShapesHeader ==
    <<"shape_id", "shape_pt_lat", "shape_pt_lon", "shape_pt_sequence", "shape_dist_traveled">>

\* writerows(shape_data) for every stored shape, in dict order
RECURSIVE ShapesRows(_)
ShapesRows(shapes) ==
    IF shapes = <<>> THEN <<>> ELSE Head(shapes)[2] \o ShapesRows(Tail(shapes))

InSeq(x, s) == \E i \in DOMAIN s : s[i] = x

\* the fieldnames of the rewritten trips.txt
TripsHeaders(txt_trips_headers) ==
    IF ~InSeq("shape_id", txt_trips_headers)
    THEN Append(txt_trips_headers, "shape_id") ELSE txt_trips_headers

\* TripRecord that leaves the shape_id of an unmatched trip as it was read
TripRecordKeep(trip_record, trips_shape_ids) ==
    [c \in DOMAIN trip_record \cup {"shape_id"} |->
        IF c = "shape_id"
        THEN IF Has(trips_shape_ids, trip_record.trip_id)
             THEN Get(trips_shape_ids, trip_record.trip_id)
             ELSE IF "shape_id" \in DOMAIN trip_record THEN trip_record.shape_id ELSE <<>>
        ELSE trip_record[c]]

\* one rewritten row of trips.txt: a row is a record over its columns
TripRecord(trip_record, trips_shape_ids) ==
    [c \in DOMAIN trip_record \cup {"shape_id"} |->
        IF c = "shape_id"
        THEN IF Has(trips_shape_ids, trip_record.trip_id)
             THEN Get(trips_shape_ids, trip_record.trip_id)
             ELSE <<>>
        ELSE trip_record[c]]

\* ------------------------------------------------------------------- files
File(header, rows) == [exists |-> TRUE, header |-> header, rows |-> rows]

NoFile == [exists |-> FALSE, header |-> <<>>, rows |-> <<>>]

\* a file opened with 'w' and never written to
EmptyFile == File(<<>>, <<>>)

\* ------------------------------------------------------------------ inputs
A == <<"a">>
B == <<"b">>
AH == <<"a", "#">>
HB == <<"#", "b">>
M == <<"m">>
Z == <<"z">>

\* the longitudes of the points of the generated linestrings
Lons == 0..2

\* stops.txt; m lies beyond the reach of every generated linestring and z
\* has no row
StopsTxt ==
    << [stop_id |-> A, stop_lon |-> 0, stop_lat |-> 0],
       [stop_id |-> B, stop_lon |-> 2, stop_lat |-> 0],
       [stop_id |-> AH, stop_lon |-> 1, stop_lat |-> 0],
       [stop_id |-> HB, stop_lon |-> 1, stop_lat |-> 0],
       [stop_id |-> M, stop_lon |-> 4, stop_lat |-> 0] >>

\* the stop_times.txt rows of one trip whose stops, by stop_sequence, are
\* stop_ids; the rows are in stop_sequence order, or in reverse of it
StopTimesRows(trip_id, stop_ids, reversed) ==
    [i \in DOMAIN stop_ids |->
        LET k == IF reversed THEN Len(stop_ids) + 1 - i ELSE i
        IN [trip_id |-> trip_id, stop_id |-> stop_ids[k], stop_sequence |-> k]]

TripsRows(trip_ids) == [i \in DOMAIN trip_ids |-> [trip_id |-> trip_ids[i]]]

OldShapeId == <<"old:", 0>>

TripsRowsWithShape(trip_ids) ==
    [i \in DOMAIN trip_ids |-> [trip_id |-> trip_ids[i], shape_id |-> OldShapeId]]

OldShapesTxt ==
    File(ShapesHeader,
         << [shape_id |-> OldShapeId, shape_pt_lat |-> 0, shape_pt_lon |-> 0,
             shape_pt_sequence |-> 1, shape_dist_traveled |-> Km(0)] >>)

LineFeature(coordinates) ==
    [type |-> "Feature", geometry |-> [type |-> "LineString", coordinates |-> coordinates]]

PointFeature(coordinates) ==
    [type |-> "Feature", geometry |-> [type |-> "Point", coordinates |-> coordinates]]

SeqsUpTo(S, lo, hi) == UNION {[1..n -> S] : n \in lo..hi}

\* every linestring of 2..MaxPts points with longitudes in Lons
LineCoordinates == SeqsUpTo({<<x, 0>> : x \in Lons}, 2, MaxPts)

\* directories of no, one or two files with one LineString feature each
GeoDirs == SeqsUpTo({<<LineFeature(c)>> : c \in LineCoordinates}, 0, 2)

\* directories of two files whose linestrings all pass the stops a and b
TwoFileDirs ==
    SeqsUpTo({<<LineFeature(c)>> :
                c \in { <<<<0, 0>>, <<2, 0>>>>, <<<<0, 0>>, <<1, 0>>, <<2, 0>>>>,
                        <<<<1, 0>>, <<2, 0>>>> }}, 2, 2)

\* a directory of two files: features that are no LineString, a coordinate
\* with an altitude, and two linestrings of equal length
FixedDir ==
    << <<PointFeature(<<<<0, 0>>>>), LineFeature(<<<<0, 0, 5>>, <<1, 0>>, <<2, 0>>>>)>>,
       <<LineFeature(<<<<0, 0>>, <<2, 0>>>>)>> >>

Feed(stop_times, trips, shapes) ==
    [stop_times |-> stop_times, trips |-> trips, shapes |-> shapes]

\* feeds for the matching: a loop pattern, two trips of one pattern, a
\* pattern with a stop off every linestring
MatchFeeds ==
    { Feed(StopTimesRows("T1", <<A, B>>, FALSE) \o StopTimesRows("T2", <<A, B, A>>, FALSE)
             \o StopTimesRows("T3", <<A, B>>, FALSE),
           File(<<"trip_id">>, TripsRows(<<"T1", "T2", "T3">>)), NoFile),
      Feed(StopTimesRows("T1", <<A, M, B>>, FALSE) \o StopTimesRows("T2", <<A, B>>, FALSE),
           File(<<"trip_id">>, TripsRows(<<"T1", "T2">>)), NoFile) }

\* feeds for the index: two trips with any stop list of 1..MaxStops known
\* stops, or with an unknown stop in the second trip, their rows in
\* stop_sequence order or not
StopLists == SeqsUpTo({A, B, AH, HB}, 1, MaxStops)

UnknownStopLists == {<<Z>>, <<A, Z>>, <<Z, B>>}

IndexFeed(l1, l2, rev) ==
    Feed(StopTimesRows("T1", l1, rev) \o StopTimesRows("T2", l2, rev),
         File(<<"trip_id">>, TripsRows(<<"T1", "T2">>)), NoFile)

\* feeds for the output: every trips.txt of up to MaxTripRows rows, with or
\* without a shape_id column, or no trips.txt; with or without a shapes.txt
TripIdLists == SeqsUpTo({"T1", "T2", "T3"}, 0, MaxTripRows)

TripsFiles ==
    {NoFile}
    \cup {File(<<"trip_id">>, TripsRows(t)) : t \in TripIdLists}
    \cup {File(<<"trip_id", "shape_id">>, TripsRowsWithShape(t)) : t \in TripIdLists}

OutputFeed(trips, shapes) ==
    Feed(StopTimesRows("T1", <<A, B>>, FALSE) \o StopTimesRows("T2", <<B, A>>, FALSE),
         trips, shapes)

\* ------------------------------------------------------------------- state
VARIABLES
    geojson_dir,                    \* the GeoJSON directory: a sequence of files
    feed,                           \* the GTFS feed as given
    trips_txt, shapes_txt,          \* the two files of the working directory
    listing,                        \* os.listdir order of the current matcher
    geojson_linestrings,            \* self._geojson_linestrings
    gtfs_trip_patterns,             \* self._gtfs_trip_patterns
    gtfs_trip_patterns_trip_ids,    \* self._gtfs_trip_patterns_trip_ids
    gtfs_trips_shape_ids,           \* self._gtfs_trips_shape_ids
    gtfs_shapes,                    \* self._gtfs_shapes
    pc,                             \* position in run()
    idx,                            \* position of the loop over the patterns
    line_string_index,              \* the local of run(); -1 while unbound
    runs,                           \* run() calls so far
    fresh,                          \* the current run is the matcher's first
    prev                            \* output of the run before, <<>> if none

vars ==
    <<geojson_dir, feed, trips_txt, shapes_txt, listing, geojson_linestrings,
      gtfs_trip_patterns, gtfs_trip_patterns_trip_ids, gtfs_trips_shape_ids,
      gtfs_shapes, pc, idx, line_string_index, runs, fresh, prev>>

inputVars == <<geojson_dir, feed>>

matcherVars ==
    <<gtfs_trip_patterns, gtfs_trip_patterns_trip_ids, gtfs_trips_shape_ids, gtfs_shapes>>

runVars == <<runs, fresh, prev, listing, geojson_linestrings>>

\* the orders in which os.listdir may list n files
Listings(n) == {order \in [1..n -> 1..n] : \A i \in 1..n : \E j \in 1..n : order[j] = i}

\* __init__ with a state that outlives the instance: the shapes are kept
NewMatcherSharedShapes(dir, order) ==
    [geojson_linestrings |-> ReadGeojsonDir(<<>>, dir, order),
     gtfs_trip_patterns |-> <<>>,
     gtfs_trip_patterns_trip_ids |-> <<>>,
     gtfs_trips_shape_ids |-> <<>>,
     gtfs_shapes |-> gtfs_shapes]

\* __init__: four empty dicts and the linestrings of the files as listed
NewMatcher(dir, order) ==
    [geojson_linestrings |-> ReadGeojsonDir(<<>>, dir, order),
     gtfs_trip_patterns |-> <<>>,
     gtfs_trip_patterns_trip_ids |-> <<>>,
     gtfs_trips_shape_ids |-> <<>>,
     gtfs_shapes |-> <<>>]

\* the first matcher, constructed from the directory, at the call of run()
InitWith(dir, gtfs) ==
        /\ geojson_dir = dir
        /\ feed = gtfs
        /\ trips_txt = gtfs.trips
        /\ shapes_txt = gtfs.shapes
        /\ listing = [i \in DOMAIN dir |-> i]
        /\ geojson_linestrings = ReadGeojsonDir(<<>>, dir, [i \in DOMAIN dir |-> i])
        /\ gtfs_trip_patterns = <<>>
        /\ gtfs_trip_patterns_trip_ids = <<>>
        /\ gtfs_trips_shape_ids = <<>>
        /\ gtfs_shapes = <<>>
        /\ pc = "read"
        /\ idx = 1
        /\ line_string_index = -1
        /\ runs = 1
        /\ fresh = TRUE
        /\ prev = <<>>

Init ==
    \/ \E dir \in GeoDirs : \E gtfs \in MatchFeeds : InitWith(dir, gtfs)
    \/ \E l1 \in StopLists : \E l2 \in StopLists \cup UnknownStopLists : \E rev \in BOOLEAN :
          InitWith(FixedDir, IndexFeed(l1, l2, rev))
    \/ \E trips \in TripsFiles : \E shapes \in {NoFile, OldShapesTxt} :
          InitWith(FixedDir, OutputFeed(trips, shapes))

\* _read_gtfs_index, up to the first pattern of the loop of run()
ReadGtfsIndex ==
    /\ pc = "read"
    /\ LET stop_coordinate_index == StopCoordinateIndex(<<>>, StopsTxt)
           trip_stop_id_lists == TripStopIdLists(<<>>, feed.stop_times)
           r == TransformTrips(trip_stop_id_lists, stop_coordinate_index,
                               gtfs_trip_patterns, gtfs_trip_patterns_trip_ids)
       IN /\ gtfs_trip_patterns' = r.patterns
          /\ gtfs_trip_patterns_trip_ids' = r.trip_ids
          /\ pc' = IF r.raised THEN "aborted" ELSE "match"
    /\ idx' = 1
    /\ UNCHANGED <<inputVars, runVars, trips_txt, shapes_txt, gtfs_trips_shape_ids,
                   gtfs_shapes, line_string_index>>

\* MatchPattern that raises when no candidate is left
MatchPatternRaises ==
    /\ pc = "match"
    /\ idx <= Len(gtfs_trip_patterns)
    /\ LET trip_pattern_id == gtfs_trip_patterns[idx][1]
           trip_pattern_coordinates == gtfs_trip_patterns[idx][2]
           line_string_candidates ==
               Candidates(geojson_linestrings, trip_pattern_coordinates, 0, <<>>)
       IN IF Len(line_string_candidates) > 0
          THEN LET index == PyMin(line_string_candidates, 1, 1)
                   s == CreateShape(gtfs_shapes, geojson_linestrings[index + 1])
               IN /\ line_string_index' = index
                  /\ gtfs_shapes' = s.shapes
                  /\ gtfs_trips_shape_ids' =
                        AssignShape(gtfs_trips_shape_ids,
                                    Get(gtfs_trip_patterns_trip_ids, trip_pattern_id),
                                    s.shape_id)
                  /\ pc' = pc
          ELSE /\ pc' = "aborted"
               /\ UNCHANGED <<line_string_index, gtfs_shapes, gtfs_trips_shape_ids>>
    /\ idx' = idx + 1
    /\ UNCHANGED <<inputVars, runVars, trips_txt, shapes_txt, gtfs_trip_patterns,
                   gtfs_trip_patterns_trip_ids>>

\* one iteration of the loop of run() over the trip patterns
MatchPattern ==
    /\ pc = "match"
    /\ idx <= Len(gtfs_trip_patterns)
    /\ LET trip_pattern_id == gtfs_trip_patterns[idx][1]
           trip_pattern_coordinates == gtfs_trip_patterns[idx][2]
           line_string_candidates ==
               Candidates(geojson_linestrings, trip_pattern_coordinates, 0, <<>>)
       IN IF Len(line_string_candidates) > 0
          THEN LET index == PyMin(line_string_candidates, 1, 1)
                   s == CreateShape(gtfs_shapes, geojson_linestrings[index + 1])
               IN /\ line_string_index' = index
                  /\ gtfs_shapes' = s.shapes
                  /\ gtfs_trips_shape_ids' =
                        AssignShape(gtfs_trips_shape_ids,
                                    Get(gtfs_trip_patterns_trip_ids, trip_pattern_id),
                                    s.shape_id)
          ELSE UNCHANGED <<line_string_index, gtfs_shapes, gtfs_trips_shape_ids>>
    /\ idx' = idx + 1
    /\ UNCHANGED <<inputVars, runVars, trips_txt, shapes_txt, gtfs_trip_patterns,
                   gtfs_trip_patterns_trip_ids, pc>>

\* _write_gtfs_data, called when the loop is over: shapes.txt is rewritten,
\* trips.txt is read (FileNotFoundError), removed and opened for writing,
\* its header taken from the first row (IndexError), its rows rewritten
WriteGtfsData ==
    /\ pc = "match"
    /\ idx > Len(gtfs_trip_patterns)
    /\ shapes_txt' = File(ShapesHeader, ShapesRows(gtfs_shapes))
    /\ IF ~trips_txt.exists
       THEN /\ trips_txt' = trips_txt
            /\ pc' = "aborted"
       ELSE IF trips_txt.rows = <<>>
       THEN /\ trips_txt' = EmptyFile
            /\ pc' = "aborted"
       ELSE /\ trips_txt' = File(TripsHeaders(trips_txt.header),
                                 [i \in DOMAIN trips_txt.rows |->
                                    TripRecord(trips_txt.rows[i], gtfs_trips_shape_ids)])
            /\ pc' = "done"
    /\ UNCHANGED <<inputVars, runVars, matcherVars, idx, line_string_index>>

Next == ReadGtfsIndex \/ MatchPattern \/ WriteGtfsData

Spec == Init /\ [][Next]_vars

\* --------------------------------------------------------- repeated runs
\* what a completed run wrote, and how its matcher came to be
Output ==
    [trips |-> trips_txt.rows, shapes |-> shapes_txt.rows,
     listing |-> listing, fresh |-> fresh]

\* the working directory at the next run: left as written, or the feed as
\* given put back
NextFiles ==
    \/ UNCHANGED <<trips_txt, shapes_txt>>
    \/ trips_txt' = feed.trips /\ shapes_txt' = feed.shapes

\* run() called once more on the same matcher
RunAgain ==
    /\ pc = "done"
    /\ runs < MaxRuns
    /\ runs' = runs + 1
    /\ fresh' = FALSE
    /\ prev' = <<Output>>
    /\ pc' = "read"
    /\ NextFiles
    /\ UNCHANGED <<inputVars, matcherVars, listing, geojson_linestrings, idx,
                   line_string_index>>

\* a new GeojsonMatcher over the same directory, listed in any order, and
\* its run() called
Construct ==
    /\ pc = "done"
    /\ runs < MaxRuns
    /\ \E order \in Listings(Len(geojson_dir)) :
          LET m == NewMatcher(geojson_dir, order)
          IN /\ listing' = order
             /\ geojson_linestrings' = m.geojson_linestrings
             /\ gtfs_trip_patterns' = m.gtfs_trip_patterns
             /\ gtfs_trip_patterns_trip_ids' = m.gtfs_trip_patterns_trip_ids
             /\ gtfs_trips_shape_ids' = m.gtfs_trips_shape_ids
             /\ gtfs_shapes' = m.gtfs_shapes
    /\ runs' = runs + 1
    /\ fresh' = TRUE
    /\ prev' = <<Output>>
    /\ pc' = "read"
    /\ idx' = 1
    /\ line_string_index' = -1
    /\ NextFiles
    /\ UNCHANGED inputVars

\* the inputs of the runs that are repeated
InitRerun ==
    \/ \E dir \in TwoFileDirs : \E gtfs \in MatchFeeds : InitWith(dir, gtfs)
    \/ \E trips \in TripsFiles : \E shapes \in {NoFile, OldShapesTxt} :
          InitWith(FixedDir, OutputFeed(trips, shapes))

NextRerun == Next \/ RunAgain \/ Construct

SpecRerun == InitRerun /\ [][NextRerun]_vars

\* ----------------------------------------------------- terms of the claims
Far(p, q) == GeodDist(p, q) > Threshold

\* the longitudes of the grid points a linestring passes through
OnLine(line) ==
    UNION {Min2(line[i][1], line[i + 1][1])..Max2(line[i][1], line[i + 1][1]) :
             i \in 1..(Len(line) - 1)}

\* some point of the linestring is within the threshold of p
NearLine(line, p) == \E x \in OnLine(line) : ~Far(<<x, 0>>, p)

Acceptable(line, coords) ==
    /\ ~Far(line[1], coords[1])
    /\ ~Far(line[Len(line)], coords[Len(coords)])
    /\ \A i \in DOMAIN coords : NearLine(line, coords[i])

LineAt(index) == geojson_linestrings[index + 1]

LoadIndexes == 0..(Len(geojson_linestrings) - 1)

AcceptedSet(coords) == {i \in LoadIndexes : Acceptable(LineAt(i), coords)}

IsBest(i, coords) ==
    /\ i \in AcceptedSet(coords)
    /\ \A j \in AcceptedSet(coords) :
          \/ GeometryLength(LineAt(i)) < GeometryLength(LineAt(j))
          \/ GeometryLength(LineAt(i)) = GeometryLength(LineAt(j)) /\ i <= j

PatternCoords(k) == gtfs_trip_patterns[k][2]

TripsOf(k) == Get(gtfs_trip_patterns_trip_ids, gtfs_trip_patterns[k][1])

EvaluatedPatterns == {k \in DOMAIN gtfs_trip_patterns : k < idx}

Selected(k) == Has(gtfs_trips_shape_ids, TripsOf(k)[1])

ShapeIdOf(k) == Get(gtfs_trips_shape_ids, TripsOf(k)[1])

ShapePoints(shape_data) ==
    [i \in DOMAIN shape_data |-> <<shape_data[i].shape_pt_lon, shape_data[i].shape_pt_lat>>]

SelectedLine(k) == ShapePoints(Get(gtfs_shapes, ShapeIdOf(k)))

LoopFinished == pc # "read" /\ idx > Len(gtfs_trip_patterns)

\* ---------------------------------------------------------------------- C1
\* C1: the linestring chosen for the pattern evaluated last is an accepted
\* candidate of minimum length and, among the accepted candidates of that
\* length, the one of lowest load-order index.
C1_ShortestLowestIndex ==
    (idx > 1 /\ idx - 1 <= Len(gtfs_trip_patterns)
        /\ AcceptedSet(PatternCoords(idx - 1)) # {})
    => IsBest(line_string_index, PatternCoords(idx - 1))

\* two different accepted candidates of the same, minimum, length
C1_Witness ==
    /\ idx > 1 /\ idx - 1 <= Len(gtfs_trip_patterns)
    /\ IsBest(line_string_index, PatternCoords(idx - 1))
    /\ \E j \in AcceptedSet(PatternCoords(idx - 1)) :
          /\ j > line_string_index
          /\ GeometryLength(LineAt(j)) = GeometryLength(LineAt(line_string_index))
          /\ LineAt(j) # LineAt(line_string_index)

\* ---------------------------------------------------------------------- C2
\* C2: the linestring selected for a pattern starts within the threshold of
\* the pattern's first stop, ends within the threshold of its last stop and
\* passes within the threshold of every stop, whatever the other candidates.
C2_NeverSelectsFar ==
    \A k \in EvaluatedPatterns :
        Selected(k) =>
            /\ ~Far(SelectedLine(k)[1], PatternCoords(k)[1])
            /\ ~Far(SelectedLine(k)[Len(SelectedLine(k))], PatternCoords(k)[Len(PatternCoords(k))])
            /\ \A i \in DOMAIN PatternCoords(k) : NearLine(SelectedLine(k), PatternCoords(k)[i])

\* a shorter linestring was passed over for its end point alone, another
\* for a stop in the middle alone
C2_Witness ==
    /\ \E k \in EvaluatedPatterns :
          /\ Selected(k)
          /\ \E j \in LoadIndexes :
                /\ Far(LineAt(j)[Len(LineAt(j))], PatternCoords(k)[Len(PatternCoords(k))])
                /\ ~Far(LineAt(j)[1], PatternCoords(k)[1])
                /\ \A i \in DOMAIN PatternCoords(k) : NearLine(LineAt(j), PatternCoords(k)[i])
                /\ GeometryLength(LineAt(j)) < GeometryLength(SelectedLine(k))
    /\ \E k \in EvaluatedPatterns :
          /\ ~Selected(k)
          /\ \E j \in LoadIndexes :
                /\ ~Far(LineAt(j)[Len(LineAt(j))], PatternCoords(k)[Len(PatternCoords(k))])
                /\ ~Far(LineAt(j)[1], PatternCoords(k)[1])
                /\ \E i \in DOMAIN PatternCoords(k) : ~NearLine(LineAt(j), PatternCoords(k)[i])

\* ---------------------------------------------------------------------- C3
LastShape == gtfs_shapes[Len(gtfs_shapes)][2]

\* C3: the shape built last has one row per point of its linestring, in the
\* same order with the same coordinates, sequence numbers 1..N, distance 0
\* at the first row and non-decreasing from row to row.
C3_ShapeFidelity ==
    line_string_index # -1 =>
        /\ Len(LastShape) = Len(LineAt(line_string_index))
        /\ \A i \in DOMAIN LastShape :
              /\ LastShape[i].shape_pt_lon = LineAt(line_string_index)[i][1]
              /\ LastShape[i].shape_pt_lat = LineAt(line_string_index)[i][2]
              /\ LastShape[i].shape_pt_sequence = i
              /\ LastShape[i].shape_dist_traveled[2] = 1000
        /\ LastShape[1].shape_dist_traveled = <<0, 1000>>
        /\ \A i \in DOMAIN LastShape : \A j \in DOMAIN LastShape :
              i <= j => LastShape[i].shape_dist_traveled[1] <= LastShape[j].shape_dist_traveled[1]

\* a shape of three points that goes forth and back
C3_Witness ==
    /\ line_string_index # -1
    /\ Len(LastShape) = 3
    /\ LastShape[1].shape_pt_lon < LastShape[2].shape_pt_lon
    /\ LastShape[3].shape_pt_lon < LastShape[2].shape_pt_lon
    /\ LastShape[2].shape_dist_traveled[1] < LastShape[3].shape_dist_traveled[1]

\* ---------------------------------------------------------------------- C4
TripIdsIn(rows) == {rows[i].trip_id : i \in DOMAIN rows}

ShapeIdsWritten == {shapes_txt.rows[i].shape_id : i \in DOMAIN shapes_txt.rows}

ValidShapeField(row) == row.shape_id = <<>> \/ row.shape_id \in ShapeIdsWritten

\* C4 as stated: after a completed run every trip_id of stop_times.txt or of
\* the trips.txt read appears in exactly one row of the trips.txt written,
\* with a shape_id that is empty or has rows in shapes.txt.
C4_EveryTripOnce ==
    pc = "done" =>
        \A t \in TripIdsIn(feed.stop_times) \cup TripIdsIn(feed.trips.rows) :
            /\ Cardinality({i \in DOMAIN trips_txt.rows : trips_txt.rows[i].trip_id = t}) = 1
            /\ \A i \in DOMAIN trips_txt.rows :
                  trips_txt.rows[i].trip_id = t => ValidShapeField(trips_txt.rows[i])

\* C4 amended: after a completed run the trips.txt written has one row per
\* row of the trips.txt read, in the same order and with the same trip_id,
\* and each shape_id is empty or has rows in shapes.txt.
C4_RowForRow ==
    pc = "done" =>
        /\ Len(trips_txt.rows) = Len(feed.trips.rows)
        /\ \A i \in DOMAIN trips_txt.rows :
              /\ trips_txt.rows[i].trip_id = feed.trips.rows[i].trip_id
              /\ ValidShapeField(trips_txt.rows[i])
        /\ InSeq("shape_id", trips_txt.header)

\* a completed run over a trips.txt with a shape_id column that lacks one
\* trip of stop_times.txt, one row matched and one left empty
C4_Witness ==
    /\ pc = "done"
    /\ \E t \in TripIdsIn(feed.stop_times) : t \notin TripIdsIn(trips_txt.rows)
    /\ InSeq("shape_id", feed.trips.header)
    /\ \E i \in DOMAIN trips_txt.rows :
          /\ trips_txt.rows[i].shape_id \in ShapeIdsWritten
          /\ feed.trips.rows[i].shape_id = OldShapeId
    /\ \E i \in DOMAIN trips_txt.rows :
          /\ trips_txt.rows[i].shape_id = <<>>
          /\ feed.trips.rows[i].shape_id = OldShapeId

\* ---------------------------------------------------------------------- C6
\* the stop_ids of a trip in the order of the rows of stop_times.txt
RowsOfTrip(t) ==
    LET OfTrip(row) == row.trip_id = t
    IN SelectSeq(feed.stop_times, OfTrip)

StopIdsOfTrip(t) == [i \in DOMAIN RowsOfTrip(t) |-> RowsOfTrip(t)[i].stop_id]

SamePattern(t1, t2) ==
    \E i \in DOMAIN gtfs_trip_patterns_trip_ids :
        /\ InSeq(t1, gtfs_trip_patterns_trip_ids[i][2])
        /\ InSeq(t2, gtfs_trip_patterns_trip_ids[i][2])

\* C6: once the index is read, two trips are in the same trip pattern if
\* and only if their stop-ID sequences are equal element by element.
C6_SamePatternIffSameStops ==
    pc = "match" =>
        \A t1 \in TripIdsIn(feed.stop_times) : \A t2 \in TripIdsIn(feed.stop_times) :
            SamePattern(t1, t2) <=> StopIdsOfTrip(t1) = StopIdsOfTrip(t2)

\* ---------------------------------------------------------------------- C7
\* the stop_ids of a trip ordered by stop_sequence
StopIdsBySequence(t) ==
    LET rows == RowsOfTrip(t)
        Rank(i) == Cardinality({j \in DOMAIN rows :
                                  rows[j].stop_sequence < rows[i].stop_sequence}) + 1
    IN [k \in DOMAIN rows |-> rows[CHOOSE i \in DOMAIN rows : Rank(i) = k].stop_id]

\* C7: once the index is read, every trip is filed under the pattern of its
\* stop_ids ordered by stop_sequence, whatever the order of the rows.
C7_OrderedByStopSequence ==
    pc = "match" =>
        \A t \in TripIdsIn(feed.stop_times) :
            \E i \in DOMAIN gtfs_trip_patterns_trip_ids :
                /\ InSeq(t, gtfs_trip_patterns_trip_ids[i][2])
                /\ gtfs_trip_patterns_trip_ids[i][1] = Join(StopIdsBySequence(t))

\* ---------------------------------------------------------------------- C8
\* C8: shapes.txt and trips.txt are as given until the matching is over,
\* and after a run that aborted they are both as given or both rewritten.
C8_NoPartialOutput ==
    /\ (pc = "read" \/ (pc = "match" /\ ~LoopFinished)) =>
          (shapes_txt = feed.shapes /\ trips_txt = feed.trips)
    /\ pc = "aborted" =>
          \/ shapes_txt = feed.shapes /\ trips_txt = feed.trips
          \/ /\ shapes_txt = File(ShapesHeader, ShapesRows(gtfs_shapes))
             /\ InSeq("shape_id", trips_txt.header)
             /\ Len(trips_txt.rows) = Len(feed.trips.rows)

\* ---------------------------------------------------------------------- C9
Unmatched(k) == AcceptedSet(PatternCoords(k)) = {}

\* C9: an iteration of the loop never leaves the loop, and one that finds
\* no candidate mints no shape and assigns none; when the loop is over the
\* trips of a pattern without accepted candidate have no shape_id, in the
\* index and in the trips.txt written, and every other pattern carries the
\* shape of the linestring that is best for that pattern alone.
C9_UnmatchedIsolated ==
    /\ [](LoopFinished =>
            \A k \in DOMAIN gtfs_trip_patterns :
                IF Unmatched(k)
                THEN \A n \in DOMAIN TripsOf(k) :
                        /\ ~Has(gtfs_trips_shape_ids, TripsOf(k)[n])
                        /\ pc = "done" =>
                              \A i \in DOMAIN trips_txt.rows :
                                  trips_txt.rows[i].trip_id = TripsOf(k)[n]
                                      => trips_txt.rows[i].shape_id = <<>>
                ELSE /\ Selected(k)
                     /\ \E i \in LoadIndexes :
                           IsBest(i, PatternCoords(k)) /\ SelectedLine(k) = LineAt(i))
    /\ [][(pc = "match" /\ idx <= Len(gtfs_trip_patterns)) =>
            /\ pc' = "match"
            /\ idx' = idx + 1
            /\ Unmatched(idx) =>
                  (gtfs_shapes' = gtfs_shapes /\ gtfs_trips_shape_ids' = gtfs_trips_shape_ids)]_vars

\* a completed run whose first pattern found no candidate and whose second
\* pattern did
C9_Witness ==
    /\ pc = "done"
    /\ Len(gtfs_trip_patterns) >= 2
    /\ Len(geojson_linestrings) >= 1
    /\ Unmatched(1)
    /\ ~Unmatched(2)
    /\ \E i \in DOMAIN trips_txt.rows :
          /\ trips_txt.rows[i].trip_id = TripsOf(2)[1]
          /\ trips_txt.rows[i].shape_id # <<>>

\* --------------------------------------------------------------------- C10
MatchedPatterns == {k \in EvaluatedPatterns : ~Unmatched(k)}

SameOutput == trips_txt.rows = prev[1].trips /\ shapes_txt.rows = prev[1].shapes

\* C5 as stated: a completed run writes the trip_id to shape_id assignment
\* and the shape rows that the run before it wrote, also when it is a
\* second run() of the same matcher or the files were listed in another order.
C5_AnyTwoRunsAgree ==
    (pc = "done" /\ prev # <<>>) => SameOutput

\* C5 amended: two completed runs, each the first run of a newly
\* constructed matcher that loaded the files in the same order, write the
\* same trip_id to shape_id assignment and the same shape rows.
C5_FreshRunsSameOrderAgree ==
    (pc = "done" /\ prev # <<>> /\ fresh /\ prev[1].fresh /\ listing = prev[1].listing)
        => SameOutput

\* a second matcher over two files, in the order of the first, has matched
C5_Witness ==
    /\ pc = "done" /\ prev # <<>> /\ fresh /\ prev[1].fresh /\ listing = prev[1].listing
    /\ Len(listing) = 2
    /\ shapes_txt.rows # <<>>
    /\ \E i \in DOMAIN trips_txt.rows : trips_txt.rows[i].shape_id # <<>>

====
